---------------------------- MODULE Spec2Model ----------------------------
(***************************************************************************)
(* A model of the trend scrapers of trendcsv-scraper: the forum pipeline   *)
(* (scrape_reddit_enhanced.py), the encyclopedia pipeline                  *)
(* (ingest_wikipedia_trends.py), the video pipeline                        *)
(* (ingest_youtube_trends.py) and the search pipeline                      *)
(* (scrape_google_trends.py), with the two pure helpers looks_like_noise   *)
(* and parse_search_volume.                                                *)
(*                                                                         *)
(* Representation.  A Python str is a sequence of one-character strings.   *)
(* None / a missing key is a flag beside the value (has_title, ...).       *)
(* The wall clock is an integer; one unit is a quarter of an hour, so the  *)
(* 0.25 h floor of the forum pipeline is one unit.  Fractional numbers are *)
(* fixed point: score fields are in thousandths (score 0.5 is 500), the    *)
(* forum raw_metric (a velocity rounded to 4 decimals) is in               *)
(* ten-thousandths.  One behaviour of the model is one run of one script,  *)
(* one call of one helper, or the file handling of one or two runs         *)
(* started in the same working directory.                                  *)
(***************************************************************************)
EXTENDS Integers, Sequences, FiniteSets, TLC

VARIABLES
    pipeline,   \* which script runs: "idle" before the choice
    pc,         \* the position of the running script
    clock,      \* the wall clock (datetime.utcnow / datetime.now)
    input,      \* the raw payload the fetcher returned for this run
    idx,        \* how many raw rows the running loop has consumed
    rows,       \* the records normalized so far (all_rows, trends, ...)
    out,        \* the sequence handed to the CSV writer
    parse_in,   \* argument of parse_search_volume
    parse_out,  \* its return value
    noise_in,   \* argument of looks_like_noise
    noise_out,  \* its return value
    cwd,        \* the CSV files of the working directory, oldest first
    outputs,    \* the files under trendingcsv/, each with its last writer
    runs        \* the local state of the scripts that share the directory

vars == <<pipeline, pc, clock, input, idx, rows, out, parse_in, parse_out, noise_in, noise_out, cwd, outputs, runs>>

-----------------------------------------------------------------------------
(* Bounds of the model *)

\* longest raw payload of one run (items over all listings)
MaxItems == 3
\* the clock advances at most this many units during a run
MaxClock == 1
\* a title given to the noise classifier is made of at most this many pieces
MaxTitleTokens == 3
\* longest text given to the metric parser
MaxVolumeLen == 4

-----------------------------------------------------------------------------
(* Python str, list and number helpers *)

Min(a, b) == IF a <= b THEN a ELSE b
Max(a, b) == IF a >= b THEN a ELSE b

UpperChars == <<"A","B","C","D","E","F","G","H","I","J","K","L","M",
                "N","O","P","Q","R","S","T","U","V","W","X","Y","Z">>
LowerChars == <<"a","b","c","d","e","f","g","h","i","j","k","l","m",
                "n","o","p","q","r","s","t","u","v","w","x","y","z">>
DigitChars == <<"0","1","2","3","4","5","6","7","8","9">>

\* the lower-case letter of every upper-case letter
UpperToLower ==
    [c \in {UpperChars[i] : i \in 1..26} |->
        LowerChars[CHOOSE i \in 1..26 : UpperChars[i] = c]]

\* str.lower() on one character
LowerChar(c) == IF c \in DOMAIN UpperToLower THEN UpperToLower[c] ELSE c

\* str.lower()
Lower(s) == [i \in 1..Len(s) |-> LowerChar(s[i])]

IsSpace(c) == c \in {" ", "\t", "\n", "\r"}
DigitValue == [c \in {DigitChars[i] : i \in 1..10} |->
                  (CHOOSE i \in 1..10 : DigitChars[i] = c) - 1]
IsDigit(c) == c \in DOMAIN DigitValue
DigitVal(c) == DigitValue[c]

\* str.strip()
RECURSIVE LStrip(_)
LStrip(s) == IF s # <<>> /\ IsSpace(Head(s)) THEN LStrip(Tail(s)) ELSE s
RECURSIVE RStrip(_)
RStrip(s) ==
    IF s # <<>> /\ IsSpace(s[Len(s)]) THEN RStrip(SubSeq(s, 1, Len(s) - 1)) ELSE s
Strip(s) == RStrip(LStrip(s))

\* s.startswith(p)
StartsWith(s, p) == Len(p) <= Len(s) /\ SubSeq(s, 1, Len(p)) = p
\* p in s
Contains(s, p) ==
    \E i \in 1..(Len(s) - Len(p) + 1) : SubSeq(s, i, i + Len(p) - 1) = p

\* all sequences over S of length at most n
RECURSIVE SeqsUpTo(_, _)
SeqsUpTo(S, n) ==
    IF n = 0 THEN {<<>>}
    ELSE LET shorter == SeqsUpTo(S, n - 1)
         IN  shorter \cup {Append(s, x) : s \in {t \in shorter : Len(t) = n - 1}, x \in S}

\* the sequences of SeqsUpTo(S, n) that hold no element twice
DistinctSeqsUpTo(S, n) ==
    {s \in SeqsUpTo(S, n) : \A i, j \in 1..Len(s) : i # j => s[i] # s[j]}

\* a / b rounded to the nearest integer (b > 0); round() of Python rounds a
\* tie to even, and no tie occurs for the divisors the bounds allow
RoundDiv(a, b) ==
    IF a >= 0 THEN (2 * a + b) \div (2 * b) ELSE -((2 * (-a) + b) \div (2 * b))

-----------------------------------------------------------------------------
(* The forum pipeline: scrape_reddit_enhanced.py *)

\* Raw listing children the fetcher can return.  created is in clock units.
RedditItems == {
    [stickied |-> FALSE, has_title |-> TRUE, title |-> <<"A","b">>,
     subreddit |-> <<"n","e","w","s">>, has_created |-> TRUE, created |-> -4, score |-> 10],
    [stickied |-> FALSE, has_title |-> TRUE, title |-> <<"a","B">>,
     subreddit |-> <<"N","e","w","s">>, has_created |-> TRUE, created |-> -4, score |-> 20],
    [stickied |-> FALSE, has_title |-> TRUE, title |-> <<"C">>,
     subreddit |-> <<"n","e","w","s">>, has_created |-> TRUE, created |-> -4, score |-> 10],
    [stickied |-> FALSE, has_title |-> FALSE, title |-> <<>>,
     subreddit |-> <<"p","i","c","s">>, has_created |-> FALSE, created |-> 0, score |-> 5000],
    [stickied |-> TRUE, has_title |-> TRUE, title |-> <<"P","i","n">>,
     subreddit |-> <<"n","e","w","s">>, has_created |-> TRUE, created |-> -8, score |-> 20],
    \* created at the instant the run starts
    [stickied |-> FALSE, has_title |-> TRUE, title |-> <<"D">>,
     subreddit |-> <<"n","e","w","s">>, has_created |-> TRUE, created |-> 0, score |-> 7],
    \* created in the future, voted down
    [stickied |-> FALSE, has_title |-> TRUE, title |-> <<"E">>,
     subreddit |-> <<"n","e","w","s">>, has_created |-> TRUE, created |-> 5, score |-> -3],
    \* three quarters of an hour old when the run starts
    [stickied |-> FALSE, has_title |-> TRUE, title |-> <<"F">>,
     subreddit |-> <<"n","e","w","s">>, has_created |-> TRUE, created |-> -3, score |-> 10]
}

\* an age with a floor of one hour instead of a quarter of an hour
age_quarters_hour_floor(now, created) == Max(now - created, 4)

\* max((now - created_utc) / 3600, 0.25), in quarters of an hour
age_quarters(now, created) == Max(now - created, 1)

\* normalize_items: one child of the listing, with `now` the clock value read
\* once at the top of the call
normalize_item(d, kind, now) ==
    LET title     == IF d.has_title THEN d.title ELSE <<>>
        \* a missing created_utc defaults to time.time(), the instant of the call
        created   == IF d.has_created THEN d.created ELSE now
        age_q     == age_quarters(now, created)
        velocity  == RoundDiv(4 * d.score * 10000, age_q)
    IN  [source       |-> "reddit",
         title        |-> title,
         region       |-> "GLOBAL",
         observed_at  |-> now,
         raw_metric   |-> velocity,
         subreddit    |-> d.subreddit,
         score        |-> d.score * 1000,
         age_hours    |-> 25 * age_q,
         listing_type |-> kind]

RECURSIVE normalize_items(_, _, _)
normalize_items(children, kind, now) ==
    IF children = <<>> THEN <<>>
    ELSE LET d == Head(children)
             rest == normalize_items(Tail(children), kind, now)
         IN  IF d.stickied THEN rest
             ELSE <<normalize_item(d, kind, now)>> \o rest

\* the identity key of write_combined_csv
row_key(row) == <<Lower(row.title), Lower(row.subreddit)>>

\* the deduplication loop of write_combined_csv, from a given `seen` set
RECURSIVE dedupe_from(_, _)
dedupe_from(all_rows, seen) ==
    IF all_rows = <<>> THEN <<>>
    ELSE LET row == Head(all_rows)
             key == row_key(row)
         IN  IF key \notin seen
             THEN <<row>> \o dedupe_from(Tail(all_rows), seen \cup {key})
             ELSE dedupe_from(Tail(all_rows), seen)

\* a deduplication that keeps the last row of each key instead of the first
dedupe_last_seen(all_rows) ==
    LET Reverse(s) == [i \in 1..Len(s) |-> s[Len(s) + 1 - i]]
    IN  Reverse(dedupe_from(Reverse(all_rows), {}))

dedupe(all_rows) == dedupe_from(all_rows, {})

\* list.sort(key=raw_metric, reverse=True): stable, so equal keys keep their
\* input order.  Insertion of one row behind every row whose key is not smaller.
\* an insertion in front of the rows of equal key: a sort that is not stable
RECURSIVE insert_desc_unstable(_, _)
insert_desc_unstable(sorted, row) ==
    IF sorted = <<>> THEN <<row>>
    ELSE IF Head(sorted).raw_metric > row.raw_metric
         THEN <<Head(sorted)>> \o insert_desc_unstable(Tail(sorted), row)
         ELSE <<row>> \o sorted

RECURSIVE insert_desc(_, _)
insert_desc(sorted, row) ==
    IF sorted = <<>> THEN <<row>>
    ELSE IF Head(sorted).raw_metric >= row.raw_metric
         THEN <<Head(sorted)>> \o insert_desc(Tail(sorted), row)
         ELSE <<row>> \o sorted

RECURSIVE sort_raw_metric_desc(_)
sort_raw_metric_desc(s) ==
    IF s = <<>> THEN <<>>
    ELSE insert_desc(sort_raw_metric_desc(SubSeq(s, 1, Len(s) - 1)), s[Len(s)])

\* write_combined_csv: the rows written to the combined CSV
write_combined_csv(all_rows) == sort_raw_metric_desc(dedupe(all_rows))

\* main starts; the payload of the run is a rising and a hot listing, a post
\* at most once in each
StartForum ==
    /\ pipeline = "idle"
    /\ \E r \in DistinctSeqsUpTo(RedditItems, MaxItems) :
          \E h \in DistinctSeqsUpTo(RedditItems, MaxItems - Len(r)) :
              input' = [rising |-> r, hot |-> h]
    /\ pipeline' = "forum"
    /\ pc' = "rising"
    /\ UNCHANGED <<clock, idx, rows, out, parse_in, parse_out, noise_in, noise_out, cwd, outputs, runs>>

\* main: fetch_listing("rising") and normalize_items, all_rows.extend
NormalizeRising ==
    /\ pipeline = "forum" /\ pc = "rising"
    /\ rows' = rows \o normalize_items(input.rising, "rising", clock)
    /\ pc' = "hot"
    /\ UNCHANGED <<pipeline, clock, input, idx, out, parse_in, parse_out, noise_in, noise_out, cwd, outputs, runs>>

\* main: fetch_listing("hot") and normalize_items, all_rows.extend
NormalizeHot ==
    /\ pipeline = "forum" /\ pc = "hot"
    /\ rows' = rows \o normalize_items(input.hot, "hot", clock)
    /\ pc' = "write"
    /\ UNCHANGED <<pipeline, clock, input, idx, out, parse_in, parse_out, noise_in, noise_out, cwd, outputs, runs>>

\* main: a fetch that raises is caught and the listing contributes nothing
FetchListingFails ==
    /\ pipeline = "forum" /\ pc \in {"rising", "hot"}
    /\ pc' = IF pc = "rising" THEN "hot" ELSE "write"
    /\ UNCHANGED <<pipeline, clock, input, idx, rows, out, parse_in, parse_out, noise_in, noise_out, cwd, outputs, runs>>

\* main: if all_rows: write_combined_csv(all_rows)
WriteCombined ==
    /\ pipeline = "forum" /\ pc = "write"
    /\ out' = IF rows # <<>> THEN write_combined_csv(rows) ELSE <<>>
    /\ pc' = IF rows # <<>> THEN "saved" ELSE "empty"
    /\ UNCHANGED <<pipeline, clock, input, idx, rows, parse_in, parse_out, noise_in, noise_out, cwd, outputs, runs>>

\* where a run ends: the CSV written, nothing to write, or exit(1)
Finished == {"saved", "empty", "failed"}

\* the running script has a clock read ahead of it
ClockReadAhead ==
    \/ pipeline = "forum" /\ pc \in {"rising", "hot"}
    \/ pipeline = "encyclopedia" /\ pc \in {"fetch", "extract"}
    \/ pipeline = "video" /\ pc = "extract"
    \/ pipeline = "search" /\ pc = "process" /\ idx < Len(input)
    \/ pipeline = "workdir" /\ \E p \in DOMAIN runs :
                                  runs[p].pc \in {"export", "waiting", "process", "save", "write"}

\* time passes; a tick behind the last clock read of a run changes nothing
\* the run does, and is left out
Tick ==
    /\ ClockReadAhead
    /\ clock < MaxClock
    /\ clock' = clock + 1
    /\ UNCHANGED <<pipeline, pc, input, idx, rows, out, parse_in, parse_out, noise_in, noise_out, cwd, outputs, runs>>

-----------------------------------------------------------------------------
(* The noise classifier: ingest_wikipedia_trends.py, looks_like_noise *)

MONTHS == <<
    <<"J","a","n","u","a","r","y">>,
    <<"F","e","b","r","u","a","r","y">>,
    <<"M","a","r","c","h">>,
    <<"A","p","r","i","l">>,
    <<"M","a","y">>,
    <<"J","u","n","e">>,
    <<"J","u","l","y">>,
    <<"A","u","g","u","s","t">>,
    <<"S","e","p","t","e","m","b","e","r">>,
    <<"O","c","t","o","b","e","r">>,
    <<"N","o","v","e","m","b","e","r">>,
    <<"D","e","c","e","m","b","e","r">>>>

STOP_TITLES == {<<"M","a","i","n","_","P","a","g","e">>}
STOP_PREFIXES == {<<"S","p","e","c","i","a","l",":">>}
STOP_NAMESPACES == {
    <<"W","i","k","i","p","e","d","i","a",":">>,
    <<"H","e","l","p",":">>,
    <<"C","a","t","e","g","o","r","y",":">>,
    <<"T","a","l","k",":">>,
    <<"P","o","r","t","a","l",":">>,
    <<"F","i","l","e",":">>,
    <<"T","e","m","p","l","a","t","e",":">>,
    <<"U","s","e","r",":">>,
    <<"D","r","a","f","t",":">>,
    <<"M","o","d","u","l","e",":">>,
    <<"M","e","d","i","a","W","i","k","i",":">>,
    <<"T","i","m","e","d","T","e","x","t",":">>,
    <<"B","o","o","k",":">>,
    <<"G","a","d","g","e","t",":">>,
    <<"T","o","p","i","c",":">>}
INAPPROPRIATE_WORDS == {
    <<"x","x","x">>,
    <<".","x","x","x">>,
    <<"p","o","r","n">>,
    <<"s","e","x">>,
    <<"a","d","u","l","t">>,
    <<"n","s","f","w">>,
    <<"e","x","p","l","i","c","i","t">>,
    <<"m","a","t","u","r","e">>}

(* A regular expression is run as a set of positions: P holds the indexes   *)
(* at which the rest of the pattern may start, 1 being the start of the    *)
(* text (re.match anchors there).                                          *)

\* a literal under re.I
MatchLitI(t, P, lit) ==
    {p + Len(lit) : p \in {q \in P : /\ q + Len(lit) - 1 <= Len(t)
                                     /\ Lower(SubSeq(t, q, q + Len(lit) - 1)) = Lower(lit)}}

\* \d{lo,hi}
MatchDigits(t, P, lo, hi) ==
    UNION {{p + k : k \in {j \in lo..hi : /\ p + j - 1 <= Len(t)
                                          /\ \A i \in p..(p + j - 1) : IsDigit(t[i])}}
           : p \in P}

\* $ : the end of the text, or just before a newline that ends it
AtEnd(t, p) == p = Len(t) + 1 \/ (p = Len(t) /\ t[p] = "\n")

\* ^(January|...|December)_(\d{1,2})(,_\d{4})?$  with re.I
DATE_RE_match(t) ==
    LET month == UNION {MatchLitI(t, {1}, MONTHS[i]) : i \in 1..Len(MONTHS)}
        day   == MatchDigits(t, MatchLitI(t, month, <<"_">>), 1, 2)
        year  == MatchDigits(t, MatchLitI(t, day, <<",","_">>), 4, 4)
    IN  \E p \in day \cup year : AtEnd(t, p)

\* ^\d{4}$
YEAR_RE_match(t) == \E p \in MatchDigits(t, {1}, 4, 4) : AtEnd(t, p)

\* ^\d{4}_in_  with re.I
YEAR_IN_RE_match(t) ==
    MatchLitI(t, MatchDigits(t, {1}, 4, 4), <<"_","i","n","_">>) # {}

\* ^List_of_  with re.I
LIST_RE_match(t) == MatchLitI(t, {1}, <<"L","i","s","t","_","o","f","_">>) # {}

\* Deaths_in_ and four digits without the closing $
DEATHS_RE_match_open(t) ==
    MatchDigits(t, MatchLitI(t, {1},
        <<"D","e","a","t","h","s","_","i","n","_">>), 4, 4) # {}

\* ^Deaths_in_\d{4}$  with re.I
DEATHS_RE_match(t) ==
    \E p \in MatchDigits(t, MatchLitI(t, {1},
                 <<"D","e","a","t","h","s","_","i","n","_">>), 4, 4) : AtEnd(t, p)

looks_like_noise(title) ==
    IF title \in STOP_TITLES THEN TRUE
    ELSE IF \E p \in STOP_PREFIXES : StartsWith(title, p) THEN TRUE
    ELSE IF \E ns \in STOP_NAMESPACES : StartsWith(title, ns) THEN TRUE
    ELSE IF Contains(title, <<":">>) THEN TRUE
    ELSE IF DATE_RE_match(title) THEN TRUE
    ELSE IF YEAR_RE_match(title) THEN TRUE
    ELSE IF YEAR_IN_RE_match(title) THEN TRUE
    ELSE IF LIST_RE_match(title) THEN TRUE
    ELSE IF DEATHS_RE_match(title) THEN TRUE
    ELSE LET title_lower == Lower(title)
         IN  IF \E word \in INAPPROPRIATE_WORDS : Contains(title_lower, word)
             THEN TRUE
             ELSE FALSE

\* Pieces of titles; a title given to the classifier is a concatenation of at
\* most MaxTitleTokens of them (MediaWiki titles hold no line break).
TitleTokens == {
    <<"M","a","i","n","_","P","a","g","e">>,
    <<"S","p","e","c","i","a","l",":">>,
    <<"T","a","l","k",":">>,
    <<"m","a","y","_","1">>,
    <<"2">>,
    <<",","_","2","0","2","4">>,
    <<"2","0","2","4">>,
    <<"_","i","n","_">>,
    <<"L","i","s","t","_","o","f","_">>,
    <<"D","e","a","t","h","s","_","i","n","_">>,
    <<"S","e","x">>,
    <<"x">>,
    <<"A","r","t","i","f","i","c","i","a","l","_","i","n","t","e","l","l","i","g","e","n","c","e">>
}

RECURSIVE Flatten(_)
Flatten(ss) == IF ss = <<>> THEN <<>> ELSE Head(ss) \o Flatten(Tail(ss))

NoiseInputs == {Flatten(ts) : ts \in SeqsUpTo(TitleTokens, MaxTitleTokens)}

\* one call looks_like_noise(title)
ClassifyTitle ==
    /\ pipeline = "idle"
    /\ \E t \in NoiseInputs :
          /\ noise_in' = t
          /\ noise_out' = looks_like_noise(t)
    /\ pipeline' = "noise"
    /\ pc' = "returned"
    /\ UNCHANGED <<clock, input, idx, rows, out, parse_in, parse_out, cwd, outputs, runs>>

-----------------------------------------------------------------------------
(* The metric parser: scrape_google_trends.py, parse_search_volume *)

(* float(text) * 1000000 is IEEE 754 binary64 arithmetic.  A double is     *)
(* modelled by its 53 significand bits (most significant first) and the     *)
(* exponent of the last of them: the value is the bits, read as a binary    *)
(* integer, times 2^e.  Zero is the empty significand.  Long division and   *)
(* multiplication go ChunkBits bits at a time, which keeps every            *)
(* intermediate integer below 2^31 for a divisor or factor up to 10^6.      *)

SignificandBits == 53
ChunkBits == 10

RECURSIVE Pow10(_)
Pow10(k) == IF k = 0 THEN 1 ELSE 10 * Pow10(k - 1)
RECURSIVE Pow2(_)
Pow2(k) == IF k = 0 THEN 1 ELSE 2 * Pow2(k - 1)

\* the binary digits of a natural number, most significant first; <<>> for 0
RECURSIVE BitsOf(_)
BitsOf(n) == IF n = 0 THEN <<>> ELSE Append(BitsOf(n \div 2), n % 2)

RECURSIVE BitsToInt(_)
BitsToInt(b) ==
    IF b = <<>> THEN 0 ELSE 2 * BitsToInt(SubSeq(b, 1, Len(b) - 1)) + b[Len(b)]

\* 2^(ChunkBits - 1), ..., 2, 1
ChunkWeights == [i \in 1..ChunkBits |-> Pow2(ChunkBits - i)]

\* c < 2^ChunkBits as exactly ChunkBits bits
ChunkOf(c) == [i \in 1..ChunkBits |-> (c \div ChunkWeights[i]) % 2]

StripLeadingZeros(b) ==
    IF \A i \in 1..Len(b) : b[i] = 0 THEN <<>>
    ELSE SubSeq(b, CHOOSE i \in 1..Len(b) : b[i] = 1 /\ \A j \in 1..(i - 1) : b[j] = 0,
                Len(b))

\* b + 1 on bits of fixed length that are not all ones
IncBits(b) ==
    LET z == CHOOSE i \in 1..Len(b) : b[i] = 0 /\ \A j \in (i + 1)..Len(b) : b[j] = 1
    IN  [i \in 1..Len(b) |-> IF i < z THEN b[i] ELSE IF i = z THEN 1 ELSE 0]

\* round to nearest, ties to even: m the kept bits, e the exponent of the
\* last of them, guard the first dropped bit, sticky whether any later one is set
RoundNearestEven(m, e, guard, sticky) ==
    IF guard = 1 /\ (sticky \/ m[Len(m)] = 1)
    THEN IF \A i \in 1..Len(m) : m[i] = 1
         THEN [m |-> <<1>> \o [i \in 1..(Len(m) - 1) |-> 0], e |-> e + 1]
         ELSE [m |-> IncBits(m), e |-> e]
    ELSE [m |-> m, e |-> e]

\* bits holds more than SignificandBits bits, the last of exponent e, and
\* inexact says whether anything nonzero lies beyond them: the double nearest
RoundBits(bits, e, inexact) ==
    RoundNearestEven(SubSeq(bits, 1, SignificandBits),
                     e + (Len(bits) - SignificandBits),
                     bits[SignificandBits + 1],
                     inexact \/ \E i \in (SignificandBits + 2)..Len(bits) : bits[i] = 1)

\* the binary expansion of r / den behind the bits already found (k chunks
\* behind the binary point), until the significand and a guard bit are there
RECURSIVE ExpandQuotient(_, _, _, _)
ExpandQuotient(bits, r, den, k) ==
    IF Len(bits) > SignificandBits
    THEN RoundBits(bits, -(ChunkBits * k), r > 0)
    ELSE LET t == r * Pow2(ChunkBits)
         IN  ExpandQuotient(StripLeadingZeros(bits \o ChunkOf(t \div den)),
                            t % den, den, k + 1)

\* float("<digits>.<digits>"): the double nearest to n / 10^f
ToDouble(n, f) ==
    IF n = 0 THEN [m |-> <<>>, e |-> 0]
    ELSE ExpandQuotient(BitsOf(n \div Pow10(f)), n % Pow10(f), Pow10(f), 0)

\* the bits of (m as an integer) * c + carry, most significant first; the
\* length of m is a multiple of ChunkBits
RECURSIVE MulBits(_, _, _)
MulBits(m, c, carry) ==
    IF m = <<>> THEN BitsOf(carry)
    ELSE LET t == BitsToInt(SubSeq(m, Len(m) - ChunkBits + 1, Len(m))) * c + carry
         IN  MulBits(SubSeq(m, 1, Len(m) - ChunkBits), c, t \div Pow2(ChunkBits))
                 \o ChunkOf(t % Pow2(ChunkBits))

\* m with zeros in front, to a multiple of ChunkBits bits
PadToChunks(m) ==
    [i \in 1..((ChunkBits - (Len(m) % ChunkBits)) % ChunkBits) |-> 0] \o m

\* x * c for a double x and an integer c that is a double itself
DoubleTimes(x, c) ==
    IF x.m = <<>> THEN x
    ELSE LET p == StripLeadingZeros(MulBits(PadToChunks(x.m), c, 0))
         IN  IF Len(p) <= SignificandBits THEN [m |-> p, e |-> x.e]
             ELSE RoundBits(p, x.e, FALSE)

\* int(x) for a double x >= 0: truncation
DoubleToInt(x) ==
    IF x.m = <<>> THEN 0
    ELSE IF x.e >= 0 THEN BitsToInt(x.m) * Pow2(x.e)
    ELSE IF -x.e >= Len(x.m) THEN 0
    ELSE BitsToInt(SubSeq(x.m, 1, Len(x.m) + x.e))

\* the value of a run of decimal digits
RECURSIVE DigitsToInt(_)
DigitsToInt(ds) ==
    IF ds = <<>> THEN 0
    ELSE 10 * DigitsToInt(SubSeq(ds, 1, Len(ds) - 1)) + DigitVal(ds[Len(ds)])

\* the longest run of digits of s that starts at index i
RECURSIVE DigitRun(_, _)
DigitRun(s, i) ==
    IF i <= Len(s) /\ IsDigit(s[i]) THEN <<s[i]>> \o DigitRun(s, i + 1) ELSE <<>>

\* re.search(r'(\d+)', s): the first run of digits, <<>> when there is none
SearchInteger(s) ==
    IF \E i \in 1..Len(s) : IsDigit(s[i])
    THEN DigitRun(s, CHOOSE i \in 1..Len(s) :
                        IsDigit(s[i]) /\ \A j \in 1..(i - 1) : ~IsDigit(s[j]))
    ELSE <<>>

\* re.search(r'(\d+(?:\.\d+)?)', s): the first run of digits and, when a dot
\* and a digit follow it, the digits behind the dot
SearchDecimal(s) ==
    LET int  == SearchInteger(s)
        from == CHOOSE i \in 1..Len(s) :
                    IsDigit(s[i]) /\ \A j \in 1..(i - 1) : ~IsDigit(s[j])
        dot  == from + Len(int)
    IN  IF int = <<>> THEN [found |-> FALSE, int |-> <<>>, frac |-> <<>>]
        ELSE IF dot <= Len(s) /\ s[dot] = "."
             THEN [found |-> TRUE, int |-> int, frac |-> DigitRun(s, dot + 1)]
             ELSE [found |-> TRUE, int |-> int, frac |-> <<>>]

\* int(float(number.group(1)) * scale)
float_times_int(number, scale) ==
    DoubleToInt(DoubleTimes(ToDouble(DigitsToInt(number.int \o number.frac),
                                     Len(number.frac)), scale))

parse_search_volume(volume_str) ==
    IF volume_str = <<>> \/ Strip(volume_str) = <<>> THEN 0
    ELSE LET s == Lower(Strip(volume_str))
         IN  IF Contains(s, <<"m">>)
             THEN IF SearchDecimal(s).found
                  THEN float_times_int(SearchDecimal(s), 1000000)
                  ELSE 0
             ELSE IF Contains(s, <<"k">>)
             THEN IF SearchDecimal(s).found
                  THEN float_times_int(SearchDecimal(s), 1000)
                  ELSE 0
             ELSE IF SearchInteger(s) # <<>>
                  THEN DigitsToInt(SearchInteger(s))
                  ELSE 0

\* The texts given to the parser: every text of at most MaxVolumeLen
\* characters over VolumeChars, and the documented examples.  A text in
\* millions with more than three digits before the dot is left out: its
\* value is not below 2^31.
VolumeChars == {"1", "4", ".", "m", "K", "+", " "}

VolumeExamples == {
    <<"1",".","5","M">>,
    <<"5","0","0","K","+">>,
    <<"1","2","3","4","5">>,
    <<>>,
    <<"n","/","a">>
}

ParseInputs ==
    {s \in SeqsUpTo(VolumeChars, MaxVolumeLen) \cup VolumeExamples :
        Contains(Lower(s), <<"m">>) => Len(SearchInteger(s)) <= 3}

\* one call parse_search_volume(volume_str)
ParseVolume ==
    /\ pipeline = "idle"
    /\ \E s \in ParseInputs :
          /\ parse_in' = s
          /\ parse_out' = parse_search_volume(s)
    /\ pipeline' = "parse"
    /\ pc' = "returned"
    /\ UNCHANGED <<clock, input, idx, rows, out, noise_in, noise_out, cwd, outputs, runs>>

-----------------------------------------------------------------------------
(* The encyclopedia pipeline: ingest_wikipedia_trends.py *)

\* main's defaults of --max-items and --max-summaries
max_items == 50
max_summaries == 60

\* a score whose cap is applied to the raw count instead of to the quotient
score_of_count_cap_first(x) == Min(x, 1000)

\* min(x / 1000, 1000) in thousandths: x / 1000 is x thousandths
score_of_count(x) == Min(x, 1000 * 1000)

(* A raw pageview entry, with the answer the summary API gives for its      *)
(* title: whether the status is 200, the page type, and the title after     *)
(* redirect resolution.                                                     *)
WikiItems == {
    [has_article |-> TRUE, article |-> <<"2","0","2","4">>, has_views |-> TRUE,
     views |-> 900000,
     summary |-> [ok |-> TRUE, type |-> "standard", title |-> <<"2","0","2","4">>]],
    [has_article |-> TRUE, article |-> <<"T","a","l","k",":","F","o","o">>, has_views |-> TRUE,
     views |-> 800000,
     summary |-> [ok |-> TRUE, type |-> "standard", title |-> <<"T","a","l","k",":","F","o","o">>]],
    [has_article |-> TRUE,
     article |-> <<"Q","u","a","n","t","u","m","_","c","o","m","p","u","t","i","n","g">>,
     has_views |-> TRUE, views |-> 250000,
     summary |-> [ok |-> TRUE, type |-> "standard",
                  title |-> <<"Q","u","a","n","t","u","m"," ","c","o","m","p","u","t","i","n","g">>]],
    [has_article |-> TRUE, article |-> <<"Q","C">>, has_views |-> TRUE, views |-> 5000000,
     summary |-> [ok |-> TRUE, type |-> "standard",
                  title |-> <<"Q","u","a","n","t","u","m"," ","c","o","m","p","u","t","i","n","g">>]],
    [has_article |-> TRUE, article |-> <<"F","o","o">>, has_views |-> TRUE, views |-> 500,
     summary |-> [ok |-> TRUE, type |-> "standard", title |-> <<"F","o","o">>]],
    [has_article |-> TRUE, article |-> <<"B","a","r">>, has_views |-> FALSE, views |-> 0,
     summary |-> [ok |-> TRUE, type |-> "disambiguation", title |-> <<"B","a","r">>]],
    [has_article |-> TRUE, article |-> <<"C","a","t">>, has_views |-> TRUE, views |-> 250000,
     summary |-> [ok |-> FALSE, type |-> "standard", title |-> <<"C","a","t">>]],
    [has_article |-> FALSE, article |-> <<>>, has_views |-> TRUE, views |-> 100,
     summary |-> [ok |-> FALSE, type |-> "standard", title |-> <<>>]],
    \* a redirect whose target has a colon in its title
    [has_article |-> TRUE, article |-> <<"S","T","D">>, has_views |-> TRUE, views |-> 300000,
     summary |-> [ok |-> TRUE, type |-> "standard", title |-> <<"S","T",":"," ","D">>]]
}

\* the candidates of a fetch that lets noise titles through
RECURSIVE wiki_candidates_unfiltered(_)
wiki_candidates_unfiltered(articles) ==
    IF articles = <<>> THEN <<>>
    ELSE LET a == Head(articles)
         IN  <<[title |-> a.article,
                views |-> IF a.has_views THEN a.views ELSE 0,
                summary |-> a.summary]>> \o wiki_candidates_unfiltered(Tail(articles))

\* fetch_wiki_top_real, step 1: the candidates that are not noise
RECURSIVE wiki_candidates(_)
wiki_candidates(articles) ==
    IF articles = <<>> THEN <<>>
    ELSE LET a == Head(articles)
             rest == wiki_candidates(Tail(articles))
         IN  IF looks_like_noise(a.article) THEN rest
             ELSE <<[title |-> a.article,
                     views |-> IF a.has_views THEN a.views ELSE 0,
                     summary |-> a.summary]>> \o rest

\* fetch_wiki_top_real, step 2: the candidates the summary API calls a
\* standard article, under the title it returns
RECURSIVE wiki_real(_)
wiki_real(items) ==
    IF items = <<>> THEN <<>>
    ELSE LET it == Head(items)
             rest == wiki_real(Tail(items))
         IN  IF ~it.summary.ok THEN rest
             ELSE IF it.summary.type # "standard" THEN rest
             ELSE <<[source     |-> "wikipedia",
                     title      |-> it.summary.title,
                     region     |-> "GLOBAL",
                     raw_metric |-> it.views]>> \o rest

fetch_wiki_top_real(articles) ==
    LET items == wiki_candidates(articles)
        capped == SubSeq(items, 1, Min(Len(items), Min(max_items, max_summaries)))
    IN  sort_raw_metric_desc(wiki_real(capped))

\* to_slug: text.lower().replace(" ", "-").replace("_", "-"), every space and
\* every underscore becoming one hyphen
to_slug(text) ==
    LET lowered == Lower(text)
    IN  [i \in 1..Len(text) |->
            IF lowered[i] \in {" ", "_"} THEN "-" ELSE lowered[i]]

\* extract_trending_topics of ingest_wikipedia_trends.py
\* raw_metric is written as the decimal text of the count (line 126); the
\* record keeps the count that text denotes
wiki_extract_trending_topics(articles, observed_at) ==
    [i \in 1..Len(articles) |->
        [source      |-> articles[i].source,
         title       |-> articles[i].title,
         slug        |-> to_slug(articles[i].title),
         region      |-> articles[i].region,
         observed_at |-> observed_at,
         raw_metric  |-> articles[i].raw_metric,
         score       |-> score_of_count(articles[i].raw_metric)]]

StartEncyclopedia ==
    /\ pipeline = "idle"
    /\ \E in \in DistinctSeqsUpTo(WikiItems, MaxItems) : input' = in
    /\ pipeline' = "encyclopedia"
    /\ pc' = "fetch"
    /\ UNCHANGED <<clock, idx, rows, out, parse_in, parse_out, noise_in, noise_out, cwd, outputs, runs>>

\* main: articles = fetch_wiki_top_real(...); a["article"] of an entry
\* without that key raises KeyError, which main turns into exit(1)
FetchWikiTopReal ==
    /\ pipeline = "encyclopedia" /\ pc = "fetch"
    /\ IF \E i \in 1..Len(input) : ~input[i].has_article
       THEN /\ pc' = "failed"
            /\ rows' = rows
       ELSE /\ rows' = fetch_wiki_top_real(input)
            /\ pc' = IF rows' = <<>> THEN "empty" ELSE "extract"
    /\ UNCHANGED <<pipeline, clock, input, idx, out, parse_in, parse_out, noise_in, noise_out, cwd, outputs, runs>>

\* main: topics = extract_trending_topics(articles); save_to_csv(topics)
ExtractWikiTopics ==
    /\ pipeline = "encyclopedia" /\ pc = "extract"
    /\ out' = wiki_extract_trending_topics(rows, clock)
    /\ pc' = "saved"
    /\ UNCHANGED <<pipeline, clock, input, idx, rows, parse_in, parse_out, noise_in, noise_out, cwd, outputs, runs>>

-----------------------------------------------------------------------------
(* The video pipeline: ingest_youtube_trends.py *)

\* Raw items of the videos API.  views_ok says whether int(viewCount) succeeds.
YoutubeItems == {
    [has_title |-> TRUE, title |-> <<"C","a","t">>, views_ok |-> TRUE, views |-> 100,
     has_id |-> TRUE],
    [has_title |-> TRUE, title |-> <<" ","C","a","t"," ">>, views_ok |-> TRUE, views |-> 200,
     has_id |-> TRUE],
    [has_title |-> TRUE, title |-> <<" "," ">>, views_ok |-> TRUE, views |-> 200,
     has_id |-> TRUE],
    [has_title |-> FALSE, title |-> <<>>, views_ok |-> TRUE, views |-> 300,
     has_id |-> TRUE],
    [has_title |-> TRUE, title |-> <<"D","o","g">>, views_ok |-> TRUE, views |-> 5000000,
     has_id |-> TRUE],
    [has_title |-> TRUE, title |-> <<"E","m","u">>, views_ok |-> TRUE, views |-> 500,
     has_id |-> FALSE],
    [has_title |-> TRUE, title |-> <<"F","o","o">>, views_ok |-> FALSE, views |-> 0,
     has_id |-> TRUE],
    [has_title |-> TRUE, title |-> <<"O","x","_","2"," "," ","G","o","!">>, views_ok |-> TRUE,
     views |-> 700, has_id |-> TRUE],
    [has_title |-> TRUE, title |-> <<"a"," ","b"," ","c"," ","d"," ","e"," ","f">>,
     views_ok |-> TRUE, views |-> 800, has_id |-> TRUE]
}

\* str.isalnum of one character
IsAlnum(c) ==
    \/ c \in DOMAIN UpperToLower
    \/ c \in {LowerChars[i] : i \in 1..26}
    \/ IsDigit(c)

\* ''.join(c for c in s if c.isalnum() or c.isspace())
RECURSIVE KeepAlnumOrSpace(_)
KeepAlnumOrSpace(s) ==
    IF s = <<>> THEN <<>>
    ELSE IF IsAlnum(Head(s)) \/ IsSpace(Head(s))
         THEN <<Head(s)>> \o KeepAlnumOrSpace(Tail(s))
         ELSE KeepAlnumOrSpace(Tail(s))

\* str.split(): the maximal runs of characters that are not whitespace
RECURSIVE Split(_)
Split(s) ==
    LET t == LStrip(s)
    IN  IF t = <<>> THEN <<>>
        ELSE LET ends == {i \in 1..Len(t) : IsSpace(t[i])}
                 n    == IF ends = {} THEN Len(t)
                         ELSE (CHOOSE i \in ends : \A j \in ends : i <= j) - 1
             IN  <<SubSeq(t, 1, n)>> \o Split(SubSeq(t, n + 1, Len(t)))

\* '-'.join(words)
RECURSIVE JoinHyphen(_)
JoinHyphen(words) ==
    IF words = <<>> THEN <<>>
    ELSE IF Len(words) = 1 THEN words[1]
    ELSE words[1] \o <<"-">> \o JoinHyphen(Tail(words))

\* the number of words the slug of a video keeps
SlugWords == 5

\* the slug of a video: lines 95-97 of extract_trending_topics
youtube_slug(title) ==
    LET words == Split(KeepAlnumOrSpace(Lower(title)))
    IN  JoinHyphen(SubSeq(words, 1, Min(Len(words), SlugWords)))

\* extract_trending_topics of ingest_youtube_trends.py
RECURSIVE youtube_extract_trending_topics(_, _)
youtube_extract_trending_topics(videos, now) ==
    IF videos = <<>> THEN <<>>
    ELSE LET video == Head(videos)
             rest  == youtube_extract_trending_topics(Tail(videos), now)
             title == Strip(IF video.has_title THEN video.title ELSE <<>>)
         IN  IF title = <<>> THEN rest
             \* int(viewCount) raises: the except clause skips the video
             ELSE IF ~video.views_ok THEN rest
             ELSE <<[source      |-> "youtube",
                     title       |-> title,
                     slug        |-> youtube_slug(title),
                     has_id      |-> video.has_id,
                     region      |-> "US",
                     observed_at |-> now,
                     raw_metric  |-> video.views,
                     score       |-> score_of_count(video.views)]>> \o rest

\* main: videos = fetch_trending_videos(...); exit(1) when there are none
StartVideo ==
    /\ pipeline = "idle"
    /\ \E in \in DistinctSeqsUpTo(YoutubeItems, MaxItems) :
          /\ input' = in
          /\ pc' = IF in = <<>> THEN "failed" ELSE "extract"
    /\ pipeline' = "video"
    /\ UNCHANGED <<clock, idx, rows, out, parse_in, parse_out, noise_in, noise_out, cwd, outputs, runs>>

\* main: topics = extract_trending_topics(videos); save_to_csv(topics, ...),
\* which writes nothing when there are no topics
ExtractVideoTopics ==
    /\ pipeline = "video" /\ pc = "extract"
    /\ out' = youtube_extract_trending_topics(input, clock)
    /\ pc' = IF out' = <<>> THEN "empty" ELSE "saved"
    /\ UNCHANGED <<pipeline, clock, input, idx, rows, parse_in, parse_out, noise_in, noise_out, cwd, outputs, runs>>

-----------------------------------------------------------------------------
(* The search pipeline: scrape_google_trends.py *)

MIN_SEARCH_VOLUME == 5000

\* Rows of the exported CSV: the 'Trends' and 'Search volume' columns.
GoogleRows == {
    [has_trends |-> TRUE, trends |-> <<"C","a","t">>, has_volume |-> TRUE,
     volume |-> <<"4","1","K">>],
    [has_trends |-> TRUE, trends |-> <<"C","a","t">>, has_volume |-> TRUE,
     volume |-> <<"4",".","1","m">>],
    [has_trends |-> TRUE, trends |-> <<>>, has_volume |-> TRUE,
     volume |-> <<"1","m">>],
    [has_trends |-> FALSE, trends |-> <<>>, has_volume |-> TRUE,
     volume |-> <<"5","0","0","K","+">>],
    [has_trends |-> TRUE, trends |-> <<"D","o","g">>, has_volume |-> TRUE,
     volume |-> <<"4">>],
    [has_trends |-> TRUE, trends |-> <<"E","m","u">>, has_volume |-> FALSE,
     volume |-> <<>>]
}

\* process_csv_to_schema: the body of the loop for one row, with `now` the
\* value datetime.now() returns for that row; <<>> when the row is dropped
process_row(row, region, now) ==
    LET volume_str    == IF row.has_volume THEN row.volume ELSE <<"0">>
        search_volume == parse_search_volume(volume_str)
        trend_name    == IF row.has_trends THEN row.trends
                         ELSE <<"U","n","k","n","o","w","n">>
    IN  IF search_volume >= MIN_SEARCH_VOLUME
        THEN <<[source      |-> "google_trends",
                title       |-> trend_name,
                region      |-> region,
                observed_at |-> now,
                raw_metric  |-> 1]>>
        ELSE <<>>

StartSearch ==
    /\ pipeline = "idle"
    /\ \E in \in DistinctSeqsUpTo(GoogleRows, MaxItems) : input' = in
    /\ pipeline' = "search"
    /\ pc' = "process"
    /\ UNCHANGED <<clock, idx, rows, out, parse_in, parse_out, noise_in, noise_out, cwd, outputs, runs>>

\* process_csv_to_schema: one turn of `for row in reader`
ProcessRow ==
    /\ pipeline = "search" /\ pc = "process"
    /\ idx < Len(input)
    /\ rows' = rows \o process_row(input[idx + 1], "US", clock)
    /\ idx' = idx + 1
    /\ UNCHANGED <<pipeline, pc, clock, input, out, parse_in, parse_out, noise_in, noise_out, cwd, outputs, runs>>

\* process_csv_to_schema returns trends, or None when there are none; main
\* hands the trends to save_to_csv
SaveTrends ==
    /\ pipeline = "search" /\ pc = "process"
    /\ idx = Len(input)
    /\ out' = rows
    /\ pc' = IF rows = <<>> THEN "empty" ELSE "saved"
    /\ UNCHANGED <<pipeline, clock, input, idx, rows, parse_in, parse_out, noise_in, noise_out, cwd, outputs, runs>>

-----------------------------------------------------------------------------
(* Runs that share a working directory.                                     *)
(* The search script downloads into os.getcwd() (setup_driver), picks the   *)
(* newest *.csv of that directory, and removes it after saving; the search  *)
(* and the forum script write their output to a path stamped with the       *)
(* minute.  Here one unit of the clock is a minute.  A file of cwd is named *)
(* by its origin: the run whose browser wrote it, or Leftover for a CSV     *)
(* that lay in the directory before any run started.  kept says whether     *)
(* some row of the file reaches MIN_SEARCH_VOLUME.                          *)

Procs == {1, 2}
Leftover == 0
NoFile == -1

\* the local variables of main before its first statement
RunAt(kind, at) ==
    [kind |-> kind, pc |-> at, download |-> "none", downloaded_file |-> NoFile,
     trends |-> NoFile, output_file |-> <<>>, removed |-> NoFile]

\* the scripts started in the directory: one run, or two at the same time
StartInWorkdir ==
    /\ pipeline = "idle"
    /\ pipeline' = "workdir"
    /\ pc' = "running"
    /\ \E k1 \in {"search", "forum"}, k2 \in {"none", "search", "forum"} :
          LET at(k) == IF k = "search" THEN "export"
                       ELSE IF k = "forum" THEN "write" ELSE "absent"
          IN  runs' = [p \in Procs |-> IF p = 1 THEN RunAt(k1, at(k1))
                                        ELSE RunAt(k2, at(k2))]
    /\ \E old \in {<<>>} \cup {<<[origin |-> Leftover, kept |-> k]>> : k \in BOOLEAN} :
          cwd' = old
    /\ outputs' = {}
    /\ UNCHANGED <<clock, input, idx, rows, out, parse_in, parse_out, noise_in, noise_out>>

\* download_trends_csv: the export button or the CSV entry is not found, or
\* the browser raises; the function returns None and main reports a failed
\* download
ExportMissing(p) ==
    /\ pipeline = "workdir" /\ runs[p].pc = "export"
    /\ runs' = [runs EXCEPT ![p].pc = "failed"]
    /\ UNCHANGED <<pipeline, pc, clock, input, idx, rows, out, parse_in, parse_out,
                   noise_in, noise_out, cwd, outputs>>

\* download_trends_csv: the CSV entry is clicked; the browser starts the
\* download and the script sleeps
ClickCsvDownload(p) ==
    /\ pipeline = "workdir" /\ runs[p].pc = "export"
    /\ runs' = [runs EXCEPT ![p].pc = "waiting", ![p].download = "pending"]
    /\ UNCHANGED <<pipeline, pc, clock, input, idx, rows, out, parse_in, parse_out,
                   noise_in, noise_out, cwd, outputs>>

\* the browser of run p finishes its download: a new CSV in the directory.
\* It can do so during the 10 s sleep or later, until main quits the driver.
BrowserWritesFile(p) ==
    /\ pipeline = "workdir"
    /\ runs[p].download = "pending"
    /\ runs[p].pc \notin {"done", "failed"}
    /\ \E k \in BOOLEAN : cwd' = Append(cwd, [origin |-> p, kept |-> k])
    /\ runs' = [runs EXCEPT ![p].download = "written"]
    /\ UNCHANGED <<pipeline, pc, clock, input, idx, rows, out, parse_in, parse_out,
                   noise_in, noise_out, outputs>>

\* download_trends_csv after the sleep: the *.csv of the directory sorted by
\* creation time, newest first; the first one is returned, None if there
\* is none
PickMostRecentCsv(p) ==
    /\ pipeline = "workdir" /\ runs[p].pc = "waiting"
    /\ runs' = IF cwd = <<>>
               THEN [runs EXCEPT ![p].pc = "failed"]
               ELSE [runs EXCEPT ![p].pc = "process",
                                 ![p].downloaded_file = cwd[Len(cwd)].origin]
    /\ UNCHANGED <<pipeline, pc, clock, input, idx, rows, out, parse_in, parse_out,
                   noise_in, noise_out, cwd, outputs>>

\* main: trends = process_csv_to_schema(downloaded_file, region); None when
\* the file is gone or no row reaches the threshold, and main stops
ProcessDownloaded(p) ==
    /\ pipeline = "workdir" /\ runs[p].pc = "process"
    /\ LET here == {i \in 1..Len(cwd) : cwd[i].origin = runs[p].downloaded_file}
       IN  runs' = IF here # {} /\ \A i \in here : cwd[i].kept
                   THEN [runs EXCEPT ![p].pc = "save",
                                     ![p].trends = runs[p].downloaded_file]
                   ELSE [runs EXCEPT ![p].pc = "failed"]
    /\ UNCHANGED <<pipeline, pc, clock, input, idx, rows, out, parse_in, parse_out,
                   noise_in, noise_out, cwd, outputs>>

\* open(path, 'w') and the rows written: the path holds what the last writer
\* wrote
WriteFile(files, path, p) ==
    {f \in files : f.path # path} \cup {[path |-> path, writer |-> p]}

\* save_to_csv: trendingcsv/google_trends/<minute>_<region>.csv
SaveToCsv(p) ==
    /\ pipeline = "workdir" /\ runs[p].pc = "save"
    /\ LET filename == <<"google_trends", clock, "US">>
       IN  /\ outputs' = WriteFile(outputs, filename, p)
           /\ runs' = [runs EXCEPT ![p].pc = "cleanup", ![p].output_file = filename]
    /\ UNCHANGED <<pipeline, pc, clock, input, idx, rows, out, parse_in, parse_out,
                   noise_in, noise_out, cwd>>

\* main: os.remove(downloaded_file), an error ignored
RemoveDownloaded(p) ==
    /\ pipeline = "workdir" /\ runs[p].pc = "cleanup"
    /\ LET gone == \A i \in 1..Len(cwd) : cwd[i].origin # runs[p].downloaded_file
           keep(f) == f.origin # runs[p].downloaded_file
       IN  /\ cwd' = SelectSeq(cwd, keep)
           /\ runs' = [runs EXCEPT ![p].pc = "done",
                         ![p].removed = IF gone THEN NoFile ELSE runs[p].downloaded_file]
    /\ UNCHANGED <<pipeline, pc, clock, input, idx, rows, out, parse_in, parse_out,
                   noise_in, noise_out, outputs>>

\* write_combined_csv of the forum script: trendingcsv/reddit/
\* <minute>_REDDIT_COMBINED.csv
ForumWrites(p) ==
    /\ pipeline = "workdir" /\ runs[p].pc = "write"
    /\ LET path == <<"reddit", clock, "REDDIT_COMBINED">>
       IN  /\ outputs' = WriteFile(outputs, path, p)
           /\ runs' = [runs EXCEPT ![p].pc = "done", ![p].output_file = path]
    /\ UNCHANGED <<pipeline, pc, clock, input, idx, rows, out, parse_in, parse_out,
                   noise_in, noise_out, cwd>>

\* main of the forum script: no posts fetched, nothing written
ForumNoPosts(p) ==
    /\ pipeline = "workdir" /\ runs[p].pc = "write"
    /\ runs' = [runs EXCEPT ![p].pc = "done"]
    /\ UNCHANGED <<pipeline, pc, clock, input, idx, rows, out, parse_in, parse_out,
                   noise_in, noise_out, cwd, outputs>>

-----------------------------------------------------------------------------

Init ==
    /\ pipeline = "idle"
    /\ pc = "start"
    /\ clock = 0
    /\ input = <<>>
    /\ idx = 0
    /\ rows = <<>>
    /\ out = <<>>
    /\ parse_in = <<>>
    /\ parse_out = 0
    /\ noise_in = <<>>
    /\ noise_out = FALSE
    /\ cwd = <<>>
    /\ outputs = {}
    /\ runs = [p \in Procs |-> RunAt("none", "absent")]

Next ==
    \/ StartForum
    \/ NormalizeRising
    \/ NormalizeHot
    \/ FetchListingFails
    \/ WriteCombined
    \/ Tick
    \/ ClassifyTitle
    \/ ParseVolume
    \/ StartEncyclopedia
    \/ FetchWikiTopReal
    \/ ExtractWikiTopics
    \/ StartVideo
    \/ ExtractVideoTopics
    \/ StartSearch
    \/ ProcessRow
    \/ SaveTrends
    \/ StartInWorkdir
    \/ \E p \in Procs : ExportMissing(p)
    \/ \E p \in Procs : ClickCsvDownload(p)
    \/ \E p \in Procs : BrowserWritesFile(p)
    \/ \E p \in Procs : PickMostRecentCsv(p)
    \/ \E p \in Procs : ProcessDownloaded(p)
    \/ \E p \in Procs : SaveToCsv(p)
    \/ \E p \in Procs : RemoveDownloaded(p)
    \/ \E p \in Procs : ForumWrites(p)
    \/ \E p \in Procs : ForumNoPosts(p)

Spec == Init /\ [][Next]_vars

-----------------------------------------------------------------------------
(* The claims *)

\* the run handed a sequence to the CSV writer
Saved == pc = "saved"

Indexes(s) == 1..Len(s)

\* the identity key the specification gives a forum record
ForumKey(r) == <<Lower(r.title), Lower(r.subreddit)>>
\* the identity key the specification gives a record of a title-based source
TitleKey(r) == <<r.title, r.region>>

IdentityKey(r) == IF pipeline = "forum" THEN ForumKey(r) ELSE TitleKey(r)

(* C1: in the output of one run of any pipeline no two records share the    *)
(* identity key (title and region; lower-cased title and community for the  *)
(* forum).  The encyclopedia, video and search pipelines do not deduplicate. *)
C1_NoDuplicateKeys ==
    Saved => \A i, j \in Indexes(out) :
                 i # j => IdentityKey(out[i]) # IdentityKey(out[j])

\* the index in rows of the first row with forum key k
FirstIndex(k) ==
    CHOOSE i \in Indexes(rows) :
        ForumKey(rows[i]) = k /\ \A j \in 1..(i - 1) : ForumKey(rows[j]) # k

(* C2: the forum output holds, for every identity key of the input rows,    *)
(* exactly one record, the earliest input row of that key whatever its      *)
(* score, and nothing is dropped for another reason.                        *)
C2_FirstSeenWins ==
    (pipeline = "forum" /\ Saved) =>
        LET keys == {ForumKey(rows[i]) : i \in Indexes(rows)}
        IN  /\ Len(out) = Cardinality(keys)
            /\ \A k \in keys : \E j \in Indexes(out) : out[j] = rows[FirstIndex(k)]

\* a key occurs in the rising and again in the hot listing, the later row
\* with the higher score, and the earlier row is the one written
C2_Witness ==
    /\ pipeline = "forum" /\ Saved
    /\ \E i, j \in Indexes(rows) :
          /\ i < j
          /\ ForumKey(rows[i]) = ForumKey(rows[j])
          /\ rows[i].listing_type = "rising" /\ rows[j].listing_type = "hot"
          /\ rows[i].score < rows[j].score
          /\ \E n \in Indexes(out) : out[n] = rows[i]
          /\ \A n \in Indexes(out) : out[n] # rows[j]

\* the rows of s whose forum key no earlier row has, in the order of s
FirstOccurrences(s) ==
    LET keep == {i \in Indexes(s) : \A j \in 1..(i - 1) : ForumKey(s[j]) # ForumKey(s[i])}
    IN  [n \in 1..Cardinality(keep) |->
            s[CHOOSE i \in keep : Cardinality({j \in keep : j <= i}) = n]]

\* the place of in[k] in a stable descending sort of in: behind every row of
\* a larger key and behind the earlier rows of its own key
StableRank(in, k) ==
    Cardinality({j \in Indexes(in) : in[j].raw_metric > in[k].raw_metric})
    + Cardinality({j \in 1..k : in[j].raw_metric = in[k].raw_metric})

\* sorted is a permutation of in, in non-increasing order of raw_metric, rows
\* of equal raw_metric in their order in in
IsStableDescendingSort(in, sorted) ==
    /\ Len(sorted) = Len(in)
    /\ \A k \in Indexes(in) : sorted[StableRank(in, k)] = in[k]
    /\ \A i, j \in Indexes(sorted) :
          i < j => sorted[i].raw_metric >= sorted[j].raw_metric

(* C3: the sorter's output (forum: the written rows; encyclopedia: the list *)
(* fetch_wiki_top_real returns) is a permutation of the records it is given, *)
(* in non-increasing order of raw_metric, equal keys in input order.         *)
C3_StableDescendingSort ==
    /\ (pipeline = "forum" /\ Saved) =>
           IsStableDescendingSort(FirstOccurrences(rows), out)
    /\ (pipeline = "encyclopedia" /\ pc \in {"extract", "saved"}) =>
           IsStableDescendingSort(wiki_real(wiki_candidates(input)), rows)

\* three records with keys [a, b, a], a < b, come out as [b, a(first), a(second)]
C3_Witness ==
    /\ pipeline = "forum" /\ Saved
    /\ LET in == FirstOccurrences(rows)
       IN  /\ Len(in) = 3
           /\ in[1].raw_metric = in[3].raw_metric
           /\ in[1].raw_metric < in[2].raw_metric
           /\ out = <<in[2], in[1], in[3]>>

(* C4: the output of every pipeline is sorted descending by the run's       *)
(* ranking key, raw_metric or score.  The video pipeline keeps the order of *)
(* the API.                                                                 *)
C4_OutputSortedDescending ==
    Saved =>
        \/ \A i, j \in Indexes(out) : i < j => out[i].raw_metric >= out[j].raw_metric
        \/ /\ \A i \in Indexes(out) : "score" \in DOMAIN out[i]
           /\ \A i, j \in Indexes(out) : i < j => out[i].score >= out[j].score

(* C5: all records of one run carry the same observed_at.  The search       *)
(* pipeline reads the clock for every row, the forum pipeline for every     *)
(* listing.                                                                 *)
C5_SingleObservedAt ==
    Saved => \A i, j \in Indexes(out) : out[i].observed_at = out[j].observed_at

(* C6: every record of every pipeline has a score in [0, 1000] (scores are  *)
(* in thousandths).  The forum score is the vote count and the search       *)
(* records have no score.                                                   *)
C6_ScoreInRange ==
    Saved => \A i \in Indexes(out) :
                 /\ "score" \in DOMAIN out[i]
                 /\ 0 <= out[i].score /\ out[i].score <= 1000 * 1000

(* C7: for the encyclopedia and video records score = min(raw_metric / 1000, *)
(* 1000): score * 1000 = raw_metric up to a million views and the cap 1000   *)
(* from there on (5,000,000 gives 1000, 500 gives 0.5), monotonic in         *)
(* raw_metric.  Scores are in thousandths.                                   *)
C7_ScoreSaturates ==
    (pipeline \in {"encyclopedia", "video"} /\ Saved) =>
        /\ \A i \in Indexes(out) :
              /\ out[i].raw_metric <= 1000000 => out[i].score = out[i].raw_metric
              /\ out[i].raw_metric >= 1000000 => out[i].score = 1000 * 1000
              /\ out[i].raw_metric = 5000000 => out[i].score = 1000000
              /\ out[i].raw_metric = 500 => out[i].score = 500
        /\ \A i, j \in Indexes(out) :
              out[i].raw_metric <= out[j].raw_metric => out[i].score <= out[j].score

\* one output holds a record of 5,000,000 views at the cap and one of 500
\* views with score 0.5
C7_Witness ==
    /\ pipeline \in {"encyclopedia", "video"} /\ Saved
    /\ \E i, j \in Indexes(out) :
          /\ out[i].raw_metric = 5000000 /\ out[i].score = 1000000
          /\ out[j].raw_metric = 500 /\ out[j].score = 500

\* the first decimal number of s: the leftmost digit, the digits that follow
\* it and, behind a dot that a digit follows, the digits after the dot
FirstDecimal(s) ==
    LET a == CHOOSE i \in Indexes(s) : IsDigit(s[i]) /\ \A j \in 1..(i - 1) : ~IsDigit(s[j])
        b == CHOOSE i \in a..Len(s) :
                 /\ \A j \in a..i : IsDigit(s[j])
                 /\ (i = Len(s) \/ ~IsDigit(s[i + 1]))
        dotted == b + 2 <= Len(s) /\ s[b + 1] = "." /\ IsDigit(s[b + 2])
        c == CHOOSE i \in (b + 2)..Len(s) :
                 /\ \A j \in (b + 2)..i : IsDigit(s[j])
                 /\ (i = Len(s) \/ ~IsDigit(s[i + 1]))
    IN  [int |-> SubSeq(s, a, b), frac |-> IF dotted THEN SubSeq(s, b + 2, c) ELSE <<>>]

\* the integer part of (int.frac) * 10^k, in exact arithmetic
ScaledTruncated(d, k) ==
    IF Len(d.frac) <= k
    THEN DigitsToInt(d.int \o d.frac) * Pow10(k - Len(d.frac))
    ELSE DigitsToInt(d.int \o d.frac) \div Pow10(Len(d.frac) - k)

\* the magnitude the specification gives a text
Magnitude(text) ==
    LET s == Lower(text)
        HasNumber == \E i \in Indexes(s) : IsDigit(s[i])
    IN  IF \A i \in Indexes(s) : IsSpace(s[i]) THEN 0
        ELSE IF ~HasNumber THEN 0
        ELSE IF \E i \in Indexes(s) : s[i] = "m" THEN ScaledTruncated(FirstDecimal(s), 6)
        ELSE IF \E i \in Indexes(s) : s[i] = "k" THEN ScaledTruncated(FirstDecimal(s), 3)
        ELSE DigitsToInt(FirstDecimal(s).int)

(* C8: parse_search_volume returns 0 for an empty or blank text or one      *)
(* without a number, the first decimal number times 1,000,000 (with an m)   *)
(* or times 1,000 (with a k) truncated, and else the first run of digits.   *)
(* The product is a binary64 product, and "4.1m" gives 4099999.             *)
C8_ParseMagnitude ==
    pipeline = "parse" => parse_out = Magnitude(parse_in)

\* a digit string of exactly four digits starting at index i of t
FourDigitsAt(t, i) == i + 3 <= Len(t) /\ \A j \in i..(i + 3) : IsDigit(t[j])

\* t is p, letter case aside
EqualsIgnoringCase(t, p) == Lower(t) = Lower(p)

\* the classification the specification gives a title
IsNoise(t) ==
    \/ t = <<"M","a","i","n","_","P","a","g","e">>
    \/ StartsWith(t, <<"S","p","e","c","i","a","l",":">>)
    \/ \E ns \in STOP_NAMESPACES : StartsWith(t, ns)
    \/ \E i \in Indexes(t) : t[i] = ":"
    \* Month_Day, optionally followed by ,_Year
    \/ \E m \in Indexes(MONTHS), d \in 1..2 :
          LET n == Len(MONTHS[m])
          IN  /\ Len(t) >= n + 1 + d
              /\ EqualsIgnoringCase(SubSeq(t, 1, n), MONTHS[m])
              /\ t[n + 1] = "_"
              /\ \A j \in (n + 2)..(n + 1 + d) : IsDigit(t[j])
              /\ \/ Len(t) = n + 1 + d
                 \/ /\ Len(t) = n + 1 + d + 6
                    /\ t[n + d + 2] = "," /\ t[n + d + 3] = "_"
                    /\ FourDigitsAt(t, n + d + 4)
    \* a bare 4-digit year
    \/ Len(t) = 4 /\ FourDigitsAt(t, 1)
    \* Year_in_...
    \/ /\ FourDigitsAt(t, 1) /\ Len(t) >= 8
       /\ EqualsIgnoringCase(SubSeq(t, 5, 8), <<"_","i","n","_">>)
    \* List_of_...
    \/ /\ Len(t) >= 8
       /\ EqualsIgnoringCase(SubSeq(t, 1, 8), <<"L","i","s","t","_","o","f","_">>)
    \* Deaths_in_<year>
    \/ /\ Len(t) = 14 /\ FourDigitsAt(t, 11)
       /\ EqualsIgnoringCase(SubSeq(t, 1, 10), <<"D","e","a","t","h","s","_","i","n","_">>)
    \* an adult term inside the lower-cased title
    \/ LET lowered == Lower(t)
       IN  \E w \in INAPPROPRIATE_WORDS :
               \E i \in Indexes(t) :
                   i + Len(w) - 1 <= Len(t) /\ SubSeq(lowered, i, i + Len(w) - 1) = w

(* C9: looks_like_noise returns true exactly for the titles in the          *)
(* stoplist, with the hard-stop or a meta-namespace prefix, with a colon,   *)
(* of the forms Month_Day[,_Year], Year, Year_in_..., List_of_...,          *)
(* Deaths_in_Year, or holding an adult term; false for                      *)
(* Artificial_intelligence and for the empty title.                         *)
C9_NoiseClassification ==
    pipeline = "noise" =>
        /\ noise_out = IsNoise(noise_in)
        /\ noise_in = <<>> => noise_out = FALSE
        /\ noise_in = <<"A","r","t","i","f","i","c","i","a","l","_",
                        "i","n","t","e","l","l","i","g","e","n","c","e">> => noise_out = FALSE

\* Deaths_in_2024 is classified as noise, by the deaths pattern alone
C9_Witness ==
    /\ pipeline = "noise"
    /\ noise_in = <<"D","e","a","t","h","s","_","i","n","_","2","0","2","4">>
    /\ noise_out = TRUE

(* C10: every record of every pipeline has a title that is not empty after  *)
(* trimming.  The forum and search pipelines emit the title as it comes.    *)
C10_TitlesNonEmpty ==
    Saved => \A i \in Indexes(out) : Strip(out[i].title) # <<>>

-----------------------------------------------------------------------------
\* C11: a raw item that lacks a required field yields no record and does not
\* fail the run: no record of a video run comes from a video without id, and
\* an encyclopedia run whose pageview list holds an entry without article
\* field does not fail.
C11_MissingFieldSkipped ==
    /\ (pipeline = "video" /\ Saved) =>
           \A i \in Indexes(out) : out[i].has_id
    /\ (pipeline = "encyclopedia" /\ \E i \in Indexes(input) : ~input[i].has_article) =>
           pc # "failed"

\* whitespace or underscore: the characters a slug replaces
IsSeparator(c) == IsSpace(c) \/ c = "_"

\* the lower-cased title with every maximal run of whitespace and
\* underscores replaced by one hyphen
RECURSIVE HyphenateRuns(_)
HyphenateRuns(s) ==
    IF s = <<>> THEN <<>>
    ELSE IF ~IsSeparator(Head(s)) THEN <<Head(s)>> \o HyphenateRuns(Tail(s))
    ELSE IF Len(s) > 1 /\ IsSeparator(s[2]) THEN HyphenateRuns(Tail(s))
    ELSE <<"-">> \o HyphenateRuns(Tail(s))

\* C12: in every pipeline that emits a slug, the slug of a record is its
\* title lower-cased with each run of whitespace and/or underscores replaced
\* by a single hyphen.
C12_SlugOfTitle ==
    (Saved /\ pipeline \in {"encyclopedia", "video"}) =>
        \A i \in Indexes(out) : out[i].slug = HyphenateRuns(Lower(out[i].title))

\* a pageview entry the encyclopedia pipeline should turn into a record: its
\* title is not noise and the summary lookup calls it a standard article
Accepted(a) ==
    /\ a.has_article
    /\ ~IsNoise(a.article)
    /\ a.summary.ok
    /\ a.summary.type = "standard"

ViewsOf(a) == IF a.has_views THEN a.views ELSE 0

\* C13: an encyclopedia run that reaches its end emits exactly one record
\* for each accepted entry and none for any other entry, with
\* score = min(views / 1000, 1000) (scores are in thousandths); the entries
\* "2024", "Talk:Foo" and "Quantum_computing" with 250000 views give one
\* record with score 250.
C13_EncyclopediaEndToEnd ==
    (pipeline = "encyclopedia" /\ pc \in {"saved", "empty"}) =>
        LET acc == SelectSeq(input, Accepted)
        IN  /\ Len(out) = Len(acc)
            /\ \E f \in Permutations(Indexes(out)) :
                  \A k \in Indexes(out) :
                      /\ out[k].title = acc[f[k]].summary.title
                      /\ out[k].raw_metric = ViewsOf(acc[f[k]])
                      /\ out[k].score = Min(ViewsOf(acc[f[k]]), 1000 * 1000)

C13_Witness ==
    /\ pipeline = "encyclopedia" /\ Saved
    /\ Len(input) = 3
    /\ input[1].article = <<"2","0","2","4">>
    /\ input[2].article = <<"T","a","l","k",":","F","o","o">>
    /\ input[3].article = <<"Q","u","a","n","t","u","m","_","c","o","m","p","u","t","i","n","g">>
    /\ input[3].views = 250000
    /\ Len(out) = 1
    /\ out[1].score = 250 * 1000

\* the rows a forum run holds are those normalize_items appended
ForumRows == IF pipeline = "forum" THEN rows ELSE <<>>

\* the listing items a row can come from: same listing, title, community
\* and vote count
ItemsOf(r) ==
    {i \in Indexes(input[r.listing_type]) :
        LET d == input[r.listing_type][i]
        IN  /\ ~d.stickied
            /\ r.title = (IF d.has_title THEN d.title ELSE <<>>)
            /\ r.subreddit = d.subreddit
            /\ r.score = 1000 * d.score}

Abs(x) == IF x >= 0 THEN x ELSE -x

\* C14: velocity = score / max(age_in_hours, 0.25) for every forum row, the
\* age taken against the one clock value of the normalization call: the
\* divisor is at least 0.25 and |velocity| <= 4 * |score|.  raw_metric holds
\* the velocity rounded to four decimals, in ten-thousandths, score the
\* vote count in thousandths; ages are in quarters of an hour.
C14_VelocityFloor ==
    \A k \in Indexes(ForumRows) :
        LET r == rows[k]
        IN  /\ r.age_hours >= 25
            /\ Abs(r.raw_metric) <= 4 * 10 * Abs(r.score)
            /\ \A j \in Indexes(rows) :
                  rows[j].listing_type = r.listing_type =>
                      rows[j].observed_at = r.observed_at
            /\ \E i \in ItemsOf(r) :
                  LET d   == input[r.listing_type][i]
                      age == IF d.has_created THEN r.observed_at - d.created ELSE 0
                      den == IF age > 1 THEN age ELSE 1
                  IN  /\ r.age_hours = 25 * den
                      /\ 2 * Abs(r.raw_metric * den - 4 * 10000 * d.score) <= den

\* rows of a post seconds old, of one created in the future, of one with no
\* creation time, and of one older than a quarter of an hour
C14_Witness ==
    /\ pipeline = "forum" /\ pc = "write"
    /\ \E k \in Indexes(rows) : rows[k].title = <<"E">> /\ rows[k].raw_metric = -12 * 10000
    /\ \E k \in Indexes(rows) : rows[k].title = <<"F">> /\ rows[k].age_hours > 25
    /\ \E k \in Indexes(rows) : rows[k].title \in {<<"D">>, <<>>}
                                   /\ rows[k].age_hours = 25

\* the runs of the scripts started in the shared directory
Started == {p \in Procs : pipeline = "workdir" /\ runs[p].kind # "none"}

\* C15: two runs started together in one working directory do not touch
\* each other's files: no run processes or removes the CSV the other run
\* downloaded, and the output file a run wrote still holds what that run
\* wrote.
C15_RunsIndependent ==
    \A p \in Started : \A q \in Started \ {p} :
        /\ runs[p].trends # q
        /\ runs[p].removed # q
        /\ runs[p].output_file # <<>> =>
               [path |-> runs[p].output_file, writer |-> p] \in outputs

\* C17: in a search run alone in its directory, the file download_trends_csv
\* returns, and main then processes and removes, is the one this run's
\* browser wrote, never a CSV that lay in the directory before; and the
\* removal comes only after the output file is saved.
C17_DownloadIsOwnFile ==
    \A p \in Started :
        (runs[p].kind = "search" /\ Started = {p}) =>
            /\ runs[p].downloaded_file # Leftover
            /\ runs[p].trends # Leftover
            /\ runs[p].removed # Leftover
            /\ runs[p].removed # NoFile => runs[p].output_file # <<>>

\* C16: no record of an encyclopedia run has a title that looks_like_noise
\* classifies as noise.
C16_EmittedTitleNotNoise ==
    (pipeline = "encyclopedia" /\ Saved) =>
        \A i \in Indexes(out) : ~looks_like_noise(out[i].title)

=============================================================================
